---- MODULE Spec2Model ----
(***************************************************************************)
(* Model of grip's live-refresh core (src/grip/app.py): the Grip.run       *)
(* lifecycle (run mutex, _shutdown_event, browser helper) and the          *)
(* server-sent-event generator of Grip._render_refresh.                    *)
(***************************************************************************)
EXTENDS Integers, Sequences, FiniteSets

\* ------------------------------------------------------------------ bounds
\* Number of content mutations the environment applies to the document.
MaxMutations == 2
\* Number of threading.Event instances Grip.run may create (server runs).
MaxRuns == 2
\* Saturation of the lateWaits history counter.
MaxLateWaits == 2

\* ------------------------------------------------------------- constants
\* Threads that may call Grip.run, and request contexts of /refresh.
Threads == {"t1", "t2"}
Sessions == {"s1", "s2"}
\* self._shutdown_event = None
None == 0
Events == 1..MaxRuns
\* No thread holds self._run_mutex.
Unlocked == "unlocked"

VARIABLES
    autorefresh,      \* self.autorefresh
    docExists,        \* the watched file exists
    mtime,            \* what reader.last_updated returns for it
    text,             \* what reader.read returns for it
    binary,           \* what reader.is_binary returns for it
    run_mutex,        \* holder of self._run_mutex
    shutdown_event,   \* self._shutdown_event: None or an Event
    evSet,            \* the flag of every threading.Event created
    created,          \* number of threading.Event objects created
    rpc,              \* position of each thread in Grip.run
    browser_thread,   \* run's local browser_thread: "none", "alive", "done"
    browser_event,    \* the event handed to start_browser_when_ready
    pc,               \* position of each request in _render_refresh / gen
    ev,               \* _render_refresh's local shutdown_event
    last_updated,     \* gen's local last_updated
    connected,        \* the client's connection is open
    trace,            \* the events gen has yielded
    nmut,             \* history: mutations since the baseline was recorded
    spaced,           \* history: never two mutations between two polls
    lateWaits         \* history: poll waits begun after the client closed

docVars == <<docExists, mtime, text, binary>>
runVars == <<run_mutex, shutdown_event, evSet, created, rpc,
             browser_thread, browser_event>>
reqVars == <<pc, ev, last_updated, connected, trace>>
histVars == <<nmut, spaced, lateWaits>>
vars == <<autorefresh, docVars, runVars, reqVars, histVars>>

\* ------------------------------------------------------------ collaborators
\* ReadmeNotFoundError: raised by the reader once the resource is gone.
NotFound == ~docExists
\* reader.last_updated(subpath)
LastUpdated == mtime
\* renderer.render(text): the rendered page of a text.
Render(t) == <<"html", t>>
\* The two payloads of the event stream.
Updating == [updating |-> TRUE]
Content(html) == [content |-> html]
IsUpdating(e) == DOMAIN e = {"updating"}
IsContent(e) == DOMAIN e = {"content"}

\* shutdown_event.is_set()
IsSet(e) == evSet[e]

\* ------------------------------------------------------------ positions
\* Positions of a thread in the body of Grip.run, past the run mutex: its
\* run is the active one.
Body == {"browser", "serve", "shutdown", "join", "cleanup"}
\* Positions of a thread outside Grip.run (before a call, or after one ended).
Resting == {"idle", "AlreadyRunning", "returned", "raised"}
\* Positions of a request whose generator has recorded its baseline and runs.
Polling == {"loop", "sleep", "continue", "yield_updating", "is_binary", "read"}
\* Ways a response ends without gen entering its loop.
Refused == {"abort404", "redirect", "empty"}
\* Ways gen ends: return (or a caught GeneratorExit), and an exception.
Returned == {"end_shutdown", "end_binary", "end_removed", "end_closed"}
Raised == {"raised_baseline", "raised_poll", "raised_binary",
           "raised_403", "raised_render"}
Ended == Returned \cup Raised

Init ==
    /\ autorefresh \in BOOLEAN
    /\ docExists = TRUE
    /\ mtime = 0
    /\ text = 0
    /\ binary = FALSE
    /\ run_mutex = Unlocked
    /\ shutdown_event = None
    /\ evSet = [e \in Events |-> FALSE]
    /\ created = 0
    /\ rpc = [t \in Threads |-> "idle"]
    /\ browser_thread = [t \in Threads |-> "none"]
    /\ browser_event = [t \in Threads |-> None]
    /\ pc = [s \in Sessions |-> "none"]
    /\ ev = [s \in Sessions |-> None]
    /\ last_updated = [s \in Sessions |-> 0]
    /\ connected = [s \in Sessions |-> TRUE]
    /\ trace = [s \in Sessions |-> <<>>]
    /\ nmut = [s \in Sessions |-> 0]
    /\ spaced = [s \in Sessions |-> TRUE]
    /\ lateWaits = [s \in Sessions |-> 0]

\* ------------------------------------------------------------ the document
\* The file is rewritten: new content, new modification time.
Mutate ==
    /\ docExists
    /\ mtime < MaxMutations
    /\ mtime' = mtime + 1
    /\ text' = text + 1
    /\ nmut' = [s \in Sessions |->
                  IF pc[s] \in Polling THEN nmut[s] + 1 ELSE nmut[s]]
    /\ spaced' = [s \in Sessions |->
                  spaced[s] /\ ~(pc[s] \in Polling /\ mtime # last_updated[s])]
    /\ UNCHANGED <<autorefresh, docExists, binary, runVars, reqVars, lateWaits>>

\* The file is removed or renamed.
Remove ==
    /\ docExists
    /\ docExists' = FALSE
    /\ UNCHANGED <<autorefresh, mtime, text, binary, runVars, reqVars, histVars>>

\* The resource becomes a binary asset.
BecomeBinary ==
    /\ docExists
    /\ ~binary
    /\ binary' = TRUE
    /\ UNCHANGED <<autorefresh, docExists, mtime, text, runVars, reqVars, histVars>>

\* The client closes the connection of a response.
Disconnect(s) ==
    /\ pc[s] \in Polling \cup {"gen"}
    /\ connected[s]
    /\ connected' = [connected EXCEPT ![s] = FALSE]
    /\ UNCHANGED <<autorefresh, docVars, runVars, pc, ev, last_updated, trace,
                   histVars>>

\* ------------------------------------------------------------ Grip.run
\* Threads between the call of run and the release of the run mutex.
Starting == {u \in Threads : rpc[u] \in {"lock", "check", "assign"}}

\* run(...) is called; the defaults of host, port, debug are resolved.
Call(t) ==
    /\ rpc[t] \in Resting
    /\ created + Cardinality(Starting) < MaxRuns
    /\ rpc' = [rpc EXCEPT ![t] = "lock"]
    /\ UNCHANGED <<autorefresh, docVars, run_mutex, shutdown_event, evSet,
                   created, browser_thread, browser_event, reqVars, histVars>>

\* The with block dropped: the thread enters without waiting for the mutex.
Acquire_nolock(t) ==
    /\ rpc[t] = "lock"
    /\ run_mutex' = t
    /\ rpc' = [rpc EXCEPT ![t] = "check"]
    /\ UNCHANGED <<autorefresh, docVars, shutdown_event, evSet, created,
                   browser_thread, browser_event, reqVars, histVars>>

\* with self._run_mutex:
Acquire(t) ==
    /\ rpc[t] = "lock"
    /\ run_mutex = Unlocked
    /\ run_mutex' = t
    /\ rpc' = [rpc EXCEPT ![t] = "check"]
    /\ UNCHANGED <<autorefresh, docVars, shutdown_event, evSet, created,
                   browser_thread, browser_event, reqVars, histVars>>

\* The check dropped: every call starts a run.
AlreadyRunning_never == FALSE

\* if self._shutdown_event:
AlreadyRunning == shutdown_event # None

\* raise AlreadyRunningError() inside the with block, or fall through.
CheckRunning(t) ==
    /\ rpc[t] = "check"
    /\ IF AlreadyRunning
         THEN /\ rpc' = [rpc EXCEPT ![t] = "AlreadyRunning"]
              /\ run_mutex' = Unlocked
         ELSE /\ rpc' = [rpc EXCEPT ![t] = "assign"]
              /\ run_mutex' = run_mutex
    /\ UNCHANGED <<autorefresh, docVars, shutdown_event, evSet, created,
                   browser_thread, browser_event, reqVars, histVars>>

\* self._shutdown_event = threading.Event(); the with block ends.
Assign(t) ==
    /\ rpc[t] = "assign"
    /\ created' = created + 1
    /\ shutdown_event' = created + 1
    /\ run_mutex' = Unlocked
    /\ rpc' = [rpc EXCEPT ![t] = "browser"]
    /\ UNCHANGED <<autorefresh, docVars, evSet, browser_thread,
                   browser_event, reqVars, histVars>>

\* browser_thread = start_browser_when_ready(...) if open_browser else None
StartBrowser(t, open_browser) ==
    /\ rpc[t] = "browser"
    /\ browser_thread' = [browser_thread EXCEPT
                            ![t] = IF open_browser THEN "alive" ELSE "none"]
    /\ browser_event' = [browser_event EXCEPT ![t] = shutdown_event]
    /\ rpc' = [rpc EXCEPT ![t] = "serve"]
    /\ UNCHANGED <<autorefresh, docVars, run_mutex, shutdown_event, evSet,
                   created, reqVars, histVars>>

\* super().run(...) returns: the serving loop was interrupted.
ServeReturn(t) ==
    /\ rpc[t] = "serve"
    /\ rpc' = [rpc EXCEPT ![t] = "shutdown"]
    /\ UNCHANGED <<autorefresh, docVars, run_mutex, shutdown_event, evSet,
                   created, browser_thread, browser_event,
                   reqVars, histVars>>

\* super().run(...) raises (the port cannot be bound, ...): run has no
\* try/finally, the exception leaves run at once.
ServeRaise(t) ==
    /\ rpc[t] = "serve"
    /\ rpc' = [rpc EXCEPT ![t] = "raised"]
    /\ UNCHANGED <<autorefresh, docVars, run_mutex, shutdown_event, evSet,
                   created, browser_thread, browser_event,
                   reqVars, histVars>>

\* self._shutdown_event.set()
SetShutdown(t) ==
    /\ rpc[t] = "shutdown"
    /\ IF shutdown_event = None
         THEN /\ rpc' = [rpc EXCEPT ![t] = "raised"]
              /\ evSet' = evSet
         ELSE /\ rpc' = [rpc EXCEPT ![t] = "join"]
              /\ evSet' = [evSet EXCEPT ![shutdown_event] = TRUE]
    /\ UNCHANGED <<autorefresh, docVars, run_mutex, shutdown_event, created,
                   browser_thread, browser_event, reqVars, histVars>>

\* The join dropped: cleanup does not wait for the browser helper.
Join_nowait(t) ==
    /\ rpc[t] = "join"
    /\ rpc' = [rpc EXCEPT ![t] = "cleanup"]
    /\ UNCHANGED <<autorefresh, docVars, run_mutex, shutdown_event, evSet,
                   created, browser_thread, browser_event,
                   reqVars, histVars>>

\* if browser_thread: browser_thread.join()
Join(t) ==
    /\ rpc[t] = "join"
    /\ browser_thread[t] # "alive"
    /\ rpc' = [rpc EXCEPT ![t] = "cleanup"]
    /\ UNCHANGED <<autorefresh, docVars, run_mutex, shutdown_event, evSet,
                   created, browser_thread, browser_event,
                   reqVars, histVars>>

\* self._shutdown_event = None; run returns.
Cleanup(t) ==
    /\ rpc[t] = "cleanup"
    /\ shutdown_event' = None
    /\ rpc' = [rpc EXCEPT ![t] = "returned"]
    /\ UNCHANGED <<autorefresh, docVars, run_mutex, evSet, created,
                   browser_thread, browser_event, reqVars, histVars>>

\* The browser helper finds the server reachable, opens the browser and ends.
BrowserOpen(t) ==
    /\ browser_thread[t] = "alive"
    /\ browser_thread' = [browser_thread EXCEPT ![t] = "done"]
    /\ UNCHANGED <<autorefresh, docVars, run_mutex, shutdown_event, evSet,
                   created, rpc, browser_event, reqVars, histVars>>

\* The browser helper sees the shutdown signal and ends without opening.
BrowserCancel(t) ==
    /\ browser_thread[t] = "alive"
    /\ browser_event[t] # None
    /\ IsSet(browser_event[t])
    /\ browser_thread' = [browser_thread EXCEPT ![t] = "done"]
    /\ UNCHANGED <<autorefresh, docVars, run_mutex, shutdown_event, evSet,
                   created, rpc, browser_event, reqVars, histVars>>

\* ------------------------------------------------------- _render_refresh
\* The autorefresh test dropped: the view goes on as if it were enabled.
Request_always(s, normalized) ==
    /\ pc[s] = "none"
    /\ IF ~normalized
         THEN pc' = [pc EXCEPT ![s] = "redirect"] /\ ev' = ev
         ELSE /\ pc' = [pc EXCEPT ![s] = "check"]
              /\ ev' = [ev EXCEPT ![s] = shutdown_event]
    /\ UNCHANGED <<autorefresh, docVars, runVars, last_updated, connected,
                   trace, histVars>>

\* The view up to the read of self._shutdown_event.
Request(s, normalized) ==
    /\ pc[s] = "none"
    /\ IF ~autorefresh
         THEN pc' = [pc EXCEPT ![s] = "abort404"] /\ ev' = ev
         ELSE IF ~normalized
           THEN pc' = [pc EXCEPT ![s] = "redirect"] /\ ev' = ev
           ELSE /\ pc' = [pc EXCEPT ![s] = "check"]
                /\ ev' = [ev EXCEPT ![s] = shutdown_event]
    /\ UNCHANGED <<autorefresh, docVars, runVars, last_updated, connected,
                   trace, histVars>>

\* The is_set test dropped: only a missing event refuses the request.
NotRunning_unset(s) == ev[s] = None

\* if not shutdown_event or shutdown_event.is_set(): return ''
NotRunning(s) == ev[s] = None \/ IsSet(ev[s])

\* The view returns '' or Response(gen(), ...).
Accept(s) ==
    /\ pc[s] = "check"
    /\ pc' = [pc EXCEPT ![s] = IF NotRunning(s) THEN "empty" ELSE "gen"]
    /\ UNCHANGED <<autorefresh, docVars, runVars, ev, last_updated, connected,
                   trace, histVars>>

\* gen starts: last_updated = self.reader.last_updated(subpath)
Baseline(s) ==
    /\ pc[s] = "gen"
    /\ IF NotFound
         THEN /\ pc' = [pc EXCEPT ![s] = "raised_baseline"]
              /\ last_updated' = last_updated
         ELSE /\ pc' = [pc EXCEPT ![s] = "loop"]
              /\ last_updated' = [last_updated EXCEPT ![s] = LastUpdated]
    /\ UNCHANGED <<autorefresh, docVars, runVars, ev, connected, trace, histVars>>

\* The loop never looks at the signal.
LoopCondition_always(s) == TRUE

\* The loop reads the application's attribute instead of the view's local.
LoopCondition_global(s) == shutdown_event # None /\ ~IsSet(shutdown_event)

\* while not shutdown_event.is_set():
LoopCondition(s) == ~IsSet(ev[s])

\* The loop condition is evaluated; the body begins with time.sleep(0.3).
LoopCheck(s) ==
    /\ pc[s] = "loop"
    /\ IF LoopCondition(s)
         THEN /\ pc' = [pc EXCEPT ![s] = "sleep"]
              /\ lateWaits' = [lateWaits EXCEPT ![s] =
                    IF ~connected[s] /\ lateWaits[s] < MaxLateWaits
                      THEN lateWaits[s] + 1 ELSE lateWaits[s]]
         ELSE /\ pc' = [pc EXCEPT ![s] = "end_shutdown"]
              /\ lateWaits' = lateWaits
    /\ UNCHANGED <<autorefresh, docVars, runVars, ev, last_updated, connected,
                   trace, nmut, spaced>>

\* Markers compared after truncation: a change within one unit is not seen.
Unchanged_coarse(s) == LastUpdated \div 2 = last_updated[s] \div 2

\* The comparison dropped: every poll counts as a change.
Unchanged_never(s) == FALSE

\* if updated == last_updated: continue
Unchanged(s) == LastUpdated = last_updated[s]

\* The baseline is not moved to the marker just read.
NewBaseline_stale(s) == last_updated[s]

\* last_updated = updated
NewBaseline(s) == LastUpdated

\* The sleep ends; updated = self.reader.last_updated(subpath) is compared.
Poll(s) ==
    /\ pc[s] = "sleep"
    /\ IF NotFound
         THEN /\ pc' = [pc EXCEPT ![s] = "raised_poll"]
              /\ last_updated' = last_updated
         ELSE IF Unchanged(s)
           THEN /\ pc' = [pc EXCEPT ![s] = "continue"]
                /\ last_updated' = last_updated
           ELSE /\ pc' = [pc EXCEPT ![s] = "yield_updating"]
                /\ last_updated' = [last_updated EXCEPT ![s] = NewBaseline(s)]
    /\ UNCHANGED <<autorefresh, docVars, runVars, ev, connected, trace, histVars>>

\* continue: back to the loop condition.
Continue(s) ==
    /\ pc[s] = "continue"
    /\ pc' = [pc EXCEPT ![s] = "loop"]
    /\ UNCHANGED <<autorefresh, docVars, runVars, ev, last_updated, connected,
                   trace, histVars>>

\* Position after a yield: the transport writes the event; on a closed
\* connection it closes the generator, GeneratorExit is caught and gen ends.
AfterYield(s, next) == IF connected[s] THEN next ELSE "end_closed"

\* The notification is not yielded (as if it belonged to the quiet test).
YieldUpdating_quiet(s) ==
    /\ pc[s] = "yield_updating"
    /\ pc' = [pc EXCEPT ![s] = AfterYield(s, "is_binary")]
    /\ UNCHANGED <<autorefresh, docVars, runVars, ev, last_updated, connected,
                   trace, histVars>>

\* yield 'data: {"updating": true}'
YieldUpdating(s) ==
    /\ pc[s] = "yield_updating"
    /\ trace' = [trace EXCEPT ![s] = Append(trace[s], Updating)]
    /\ pc' = [pc EXCEPT ![s] = AfterYield(s, "is_binary")]
    /\ UNCHANGED <<autorefresh, docVars, runVars, ev, last_updated, connected,
                   histVars>>

\* The binary check dropped: the asset is read and rendered like a text.
IsBinary_skip(s) ==
    /\ pc[s] = "is_binary"
    /\ pc' = [pc EXCEPT ![s] = IF NotFound THEN "raised_binary" ELSE "read"]
    /\ UNCHANGED <<autorefresh, docVars, runVars, ev, last_updated, connected,
                   trace, histVars>>

\* if self.reader.is_binary(subpath): return
IsBinary(s) ==
    /\ pc[s] = "is_binary"
    /\ pc' = [pc EXCEPT ![s] = IF NotFound THEN "raised_binary"
                               ELSE IF binary THEN "end_binary" ELSE "read"]
    /\ UNCHANGED <<autorefresh, docVars, runVars, ev, last_updated, connected,
                   trace, histVars>>

\* Outcomes of renderer.render: the page, HTTPError 403, another exception.
RenderOutcomes == {"ok", "403", "error"}

\* A failure of the renderer is swallowed and the loop goes on.
ReadRenderYield_retry(s, outcome) ==
    /\ pc[s] = "read"
    /\ IF NotFound
         THEN /\ pc' = [pc EXCEPT ![s] = "end_removed"]
              /\ trace' = trace
         ELSE IF outcome = "ok"
           THEN /\ trace' = [trace EXCEPT
                               ![s] = Append(trace[s], Content(Render(text)))]
                /\ pc' = [pc EXCEPT ![s] = AfterYield(s, "loop")]
           ELSE /\ pc' = [pc EXCEPT ![s] = "loop"]
                /\ trace' = trace
    /\ UNCHANGED <<autorefresh, docVars, runVars, ev, last_updated, connected,
                   histVars>>

\* text = reader.read(); content = renderer.render(text); yield content
ReadRenderYield(s, outcome) ==
    /\ pc[s] = "read"
    /\ IF NotFound
         THEN /\ pc' = [pc EXCEPT ![s] = "end_removed"]
              /\ trace' = trace
         ELSE IF outcome = "ok"
           THEN /\ trace' = [trace EXCEPT
                               ![s] = Append(trace[s], Content(Render(text)))]
                /\ pc' = [pc EXCEPT ![s] = AfterYield(s, "loop")]
           ELSE /\ pc' = [pc EXCEPT ![s] = IF outcome = "403"
                                           THEN "raised_403" ELSE "raised_render"]
                /\ trace' = trace
    /\ UNCHANGED <<autorefresh, docVars, runVars, ev, last_updated, connected,
                   histVars>>

\* ------------------------------------------------------------ specification
\* One step of a thread in Grip.run, its open_browser argument drawn from obs.
RunStep(t, obs) ==
    \/ Call(t)
    \/ Acquire(t)
    \/ CheckRunning(t)
    \/ Assign(t)
    \/ \E open_browser \in obs : StartBrowser(t, open_browser)
    \/ ServeReturn(t)
    \/ ServeRaise(t)
    \/ SetShutdown(t)
    \/ Join(t)
    \/ Cleanup(t)

BrowserStep(t) == BrowserOpen(t) \/ BrowserCancel(t)

\* The steps of a stream on which no change is ever detected.
IdleStep(s) ==
    \/ \E normalized \in BOOLEAN : Request(s, normalized)
    \/ Accept(s)
    \/ Baseline(s)
    \/ LoopCheck(s)
    \/ Poll(s)
    \/ Continue(s)

\* The steps of gen after a detected change.
RefreshStep(s) ==
    \/ YieldUpdating(s)
    \/ IsBinary(s)
    \/ \E outcome \in RenderOutcomes : ReadRenderYield(s, outcome)

RequestStep(s) == IdleStep(s) \/ RefreshStep(s)

Environment ==
    \/ Mutate
    \/ Remove
    \/ BecomeBinary
    \/ \E s \in Sessions : Disconnect(s)

\* The whole system.
Next ==
    \/ \E t \in Threads : RunStep(t, BOOLEAN) \/ BrowserStep(t)
    \/ \E s \in Sessions : RequestStep(s)
    \/ Environment

Spec == Init /\ [][Next]_vars

\* One refresh stream under every change of its document and of its
\* connection, served by runs of one thread without browser helper.
StreamNext ==
    \/ RunStep("t1", {FALSE})
    \/ RequestStep("s1")
    \/ Mutate
    \/ Remove
    \/ BecomeBinary
    \/ Disconnect("s1")

StreamSpec == Init /\ [][StreamNext]_vars

\* Threads are scheduled fairly: a request that can step eventually does.
StreamFairSpec == StreamSpec /\ WF_vars(RequestStep("s1"))

\* Every thread calling run, with and without browser helper, and idle
\* streams over a document that never changes.
LifecycleNext ==
    \/ \E t \in Threads : RunStep(t, BOOLEAN) \/ BrowserStep(t)
    \/ \E s \in Sessions : IdleStep(s)

LifecycleSpec == Init /\ [][LifecycleNext]_vars

\* ------------------------------------------------------------ properties
\* Updating and content events alternate, an updating event first.
Paired(tr) ==
    \A i \in 1..Len(tr) :
        IF i % 2 = 1 THEN IsUpdating(tr[i]) ELSE IsContent(tr[i])

\* The stream is open and nothing but rewrites of the document, spaced by
\* a poll, has happened to it.
Undisturbed(s) ==
    /\ pc[s] \in Polling
    /\ spaced[s]
    /\ docExists
    /\ ~binary
    /\ connected[s]
    /\ ~IsSet(ev[s])

\* Mutations since the baseline that a poll of the stream has seen.
Detected(s) == nmut[s] - (mtime - last_updated[s])

\* Events the stream has yielded for the mutations its polls have seen.
Due(s) ==
    IF pc[s] = "yield_updating" THEN 2 * Detected(s) - 2
    ELSE IF pc[s] \in {"is_binary", "read"} THEN 2 * Detected(s) - 1
    ELSE 2 * Detected(s)

\* C1: on a stream disturbed by nothing but N spaced rewrites of its
\* document, the events are (updating, content) pairs in that order, one pair
\* per rewrite a poll has seen: N pairs once the last rewrite is polled and
\* rendered, none skipped, none reported twice.
C1_PairPerMutation ==
    \A s \in Sessions :
        Undisturbed(s) =>
            /\ Paired(trace[s])
            /\ Len(trace[s]) = Due(s)
            /\ (pc[s] \in {"loop", "sleep", "continue"} /\ mtime = last_updated[s]
                  => Len(trace[s]) = 2 * nmut[s])

\* Two rewrites, each polled and reported by its own pair.
C1_Witness ==
    \E s \in Sessions :
        /\ Undisturbed(s)
        /\ pc[s] = "loop"
        /\ nmut[s] = 2
        /\ mtime = last_updated[s]
        /\ Len(trace[s]) = 4

\* C2: a stream whose document was not rewritten since its baseline has
\* yielded no event, however often it has polled and however it ended.
C2_IdleSilent ==
    \A s \in Sessions : nmut[s] = 0 => trace[s] = <<>>

\* A poll of an unchanged document has just reached its continue.
C2_Witness ==
    \E s \in Sessions :
        pc[s] = "continue" /\ nmut[s] = 0 /\ trace[s] = <<>>

\* C3: a stream whose shutdown signal is set yields no further event.
C3_SilentAfterShutdown ==
    [][\A s \in Sessions :
          (pc[s] \in Polling /\ IsSet(ev[s])) => trace'[s] = trace[s]]_vars

\* C4: a stream whose shutdown signal is set begins no new poll wait, and
\* under fair scheduling every stream open when its signal is set ends.
C4_BoundedShutdown ==
    /\ [][\A s \in Sessions :
            (pc[s] \in Polling /\ IsSet(ev[s]) /\ pc[s] # "sleep")
                => pc'[s] # "sleep"]_vars
    /\ \A s \in Sessions :
            (pc[s] \in Polling \cup {"gen"} /\ IsSet(ev[s])) ~> (pc[s] \in Ended)

\* A stream that has reported a rewrite left its loop on the set signal.
C4_Witness ==
    \E s \in Sessions :
        pc[s] = "end_shutdown" /\ IsSet(ev[s]) /\ Len(trace[s]) = 2

\* C5: a call of run that checks the running state while a run is active
\* raises AlreadyRunningError and changes nothing of the active run: the
\* event stays the same object, no flag changes, no event is created, no
\* stream and no browser helper is touched.
C5_AlreadyRunning ==
    [][\A t \in Threads :
          (rpc[t] = "check" /\ rpc'[t] # "check" /\ shutdown_event # None)
              => /\ rpc'[t] = "AlreadyRunning"
                 /\ \A u \in Threads \ {t} : rpc'[u] = rpc[u]
                 /\ UNCHANGED <<shutdown_event, evSet, created, browser_thread,
                                browser_event, reqVars>>]_vars

\* A call has failed while the run is active, its signal unset, a stream
\* asleep in its poll wait.
C5_Witness ==
    /\ \E t \in Threads : rpc[t] = "AlreadyRunning"
    /\ \E u \in Threads : rpc[u] = "serve"
    /\ shutdown_event # None
    /\ ~IsSet(shutdown_event)
    /\ \E s \in Sessions : pc[s] = "sleep" /\ ev[s] = shutdown_event

\* C6: a stream waiting for its next poll when its document is removed
\* yields no further event and ends without raising.
C6_RemovedEndsSilently ==
    [][\A s \in Sessions :
          (pc[s] \in {"loop", "sleep", "continue"} /\ ~docExists)
              => (trace'[s] = trace[s] /\ pc'[s] \notin Raised)]_vars

\* C7: the manager is never left with an unset signal and no thread that
\* will still set it: whenever the serving loop has ended, by return or by
\* exception, teardown sets the signal and clears the running state.
C7_TeardownAlways ==
    (shutdown_event # None /\ ~IsSet(shutdown_event))
        => \E t \in Threads : rpc[t] \in {"browser", "serve", "shutdown"}

\* C8: a stream whose client has closed the connection begins at most one
\* more poll wait.
C8_DisconnectStops ==
    \A s \in Sessions : lateWaits[s] <= 1

\* C9: one event object per running period, and every stream bound to the
\* object that was current when its request was handled: the current object
\* is the newest and is never replaced while a run is active; a stream keeps
\* the object it captured, runs gen only on a captured object, and decides to
\* wait or to leave its loop on the flag of that object alone.
C9_OneSignalPerRun ==
    [][/\ shutdown_event # None =>
            /\ shutdown_event = created
            /\ shutdown_event' \in {shutdown_event, None}
       /\ \A s \in Sessions :
            /\ (pc[s] = "none" /\ pc'[s] = "check") => ev'[s] = shutdown_event
            /\ pc[s] # "none" => ev'[s] = ev[s]
            /\ pc[s] \in Polling \cup {"gen"} => ev[s] \in Events
            /\ (pc[s] = "loop" /\ pc'[s] = "sleep") => ~IsSet(ev[s])
            /\ (pc[s] = "loop" /\ pc'[s] = "end_shutdown") => IsSet(ev[s])]_vars

\* A stream of the first run is still in its poll wait while a stream of the
\* second run polls.
C9_Witness ==
    \E s, r \in Sessions :
        /\ pc[s] = "sleep" /\ ev[s] = 1
        /\ pc[r] = "sleep" /\ ev[r] = 2
        /\ shutdown_event = 2

\* The last event is an updating event that follows a content event or
\* nothing.
EndsWithOneUpdating(tr) ==
    /\ Len(tr) >= 1
    /\ IsUpdating(tr[Len(tr)])
    /\ Len(tr) = 1 \/ IsContent(tr[Len(tr) - 1])

\* C10: when the resource is binary at the binary check that follows a
\* detected change, the stream has yielded exactly one updating event for
\* the change and ends there, without content event; an ended stream stays
\* ended and yields nothing.
C10_BinaryEnds ==
    [][\A s \in Sessions :
          /\ (pc[s] = "is_binary" /\ docExists /\ binary /\ pc'[s] # "is_binary")
                => /\ pc'[s] = "end_binary"
                   /\ trace'[s] = trace[s]
                   /\ EndsWithOneUpdating(trace[s])
          /\ pc[s] = "end_binary"
                => pc'[s] = pc[s] /\ trace'[s] = trace[s]]_vars

\* A stream has reported one rewrite in full and ended on the binary check
\* of the next.
C10_Witness ==
    \E s \in Sessions :
        pc[s] = "end_binary" /\ docExists /\ binary /\ Len(trace[s]) = 3

\* The manager is idle, or the signal of its run is set.
Draining == shutdown_event = None \/ IsSet(shutdown_event)

\* C11: a request handled while the manager is idle or while the signal of
\* the current run is set captures no usable event and is answered with the
\* empty body: its generator is never created, no baseline is read, no event
\* is yielded, and the answer is final.
C11_RefusedWhenNotRunning ==
    [][\A s \in Sessions :
          /\ (pc[s] = "none" /\ pc'[s] = "check" /\ Draining)
                => (ev'[s] = None \/ IsSet(ev'[s]))
          /\ (pc[s] = "check" /\ (ev[s] = None \/ IsSet(ev[s])))
                => /\ pc'[s] \in {"check", "empty"}
                   /\ trace'[s] = <<>>
                   /\ last_updated'[s] = last_updated[s]
          /\ pc[s] = "empty"
                => /\ pc'[s] = "empty"
                   /\ trace'[s] = <<>>
                   /\ last_updated'[s] = last_updated[s]]_vars

\* One request was refused while the manager was idle, another while the
\* signal of the run was set.
C11_Witness ==
    \E s, r \in Sessions :
        /\ pc[s] = "empty" /\ ev[s] = None
        /\ pc[r] = "empty" /\ ev[r] # None /\ IsSet(ev[r])

\* C12: with autorefresh disabled every request ends in abort(404) as its
\* first step, in every state of the manager: the event attribute is not
\* read, no generator exists, nothing is read from the reader or yielded.
C12_DisabledIsNotFound ==
    [][~autorefresh =>
          \A s \in Sessions :
              /\ pc[s] \in {"none", "abort404"}
              /\ pc'[s] \in {"none", "abort404"}
              /\ pc[s] = "abort404" => pc'[s] = "abort404"
              /\ ev'[s] = None
              /\ trace'[s] = <<>>
              /\ last_updated'[s] = last_updated[s]]_vars

\* A request was refused with 404 while a run was serving, its signal unset.
C12_Witness ==
    /\ ~autorefresh
    /\ shutdown_event # None
    /\ ~IsSet(shutdown_event)
    /\ \E t \in Threads : rpc[t] = "serve"
    /\ \E s \in Sessions : pc[s] = "abort404"

\* Threads whose run is active.
Live == {t \in Threads : rpc[t] \in Body}

\* C13: at most one run is active, under every interleaving of calls of
\* run with each other and with a teardown: one thread at a time is inside
\* the with block, a call passes the running check only when no run is
\* active and fails with AlreadyRunningError when one is, the event of the
\* active run stays the current one until that run clears it, and only a
\* set event is cleared.
C13_OneRunAtATime ==
    [][/\ Cardinality(Live) <= 1
       /\ Cardinality({t \in Threads : rpc[t] \in {"check", "assign"}}) <= 1
       /\ Live # {} => (shutdown_event # None /\ shutdown_event = created)
       /\ \A t \in Threads :
            /\ (rpc[t] = "check" /\ rpc'[t] = "assign") => Live = {}
            /\ (rpc[t] = "check" /\ rpc'[t] # "check" /\ Live # {})
                  => rpc'[t] = "AlreadyRunning"
       /\ (shutdown_event # None /\ shutdown_event' # shutdown_event)
            => /\ shutdown_event' = None
               /\ IsSet(shutdown_event)
               /\ \E t \in Threads : rpc[t] = "cleanup" /\ rpc'[t] = "returned"]_vars

\* A call checks the running state, inside the with block, while the run of
\* the other thread is between setting its signal and clearing the state.
C13_Witness ==
    \E t, u \in Threads :
        /\ rpc[t] = "cleanup"
        /\ rpc[u] = "check"
        /\ IsSet(shutdown_event)

\* C14: the signal of every run goes from cleared to set exactly once, in
\* the step that begins teardown, and is written by Grip.run alone: a flag
\* is never cleared, a flag changes only when a thread of run executes
\* self._shutdown_event.set() on the current, still unset event, an event not
\* yet created is unset, and once no run is active every event created has
\* been set.
C14_SetExactlyOnce ==
    [][/\ \A e \in Events : evSet[e] => evSet'[e]
       /\ \A e \in Events : e > created => ~evSet[e]
       /\ evSet' # evSet
            => /\ \E t \in Threads : rpc[t] = "shutdown" /\ rpc'[t] = "join"
               /\ shutdown_event # None
               /\ ~evSet[shutdown_event]
               /\ evSet' = [evSet EXCEPT ![shutdown_event] = TRUE]
       /\ Live = {} => \A e \in 1..created : evSet[e]]_vars

\* C15: teardown runs in one order: a thread waits for its browser helper
\* and clears the running state only with the signal of its run set, clears
\* only after the helper it spawned has ended, and leaves each step only to
\* the next; the manager is never idle while a browser helper is alive, and
\* the state it clears is that of a set signal.
C15_TeardownOrder ==
    [][/\ \A t \in Threads :
            /\ rpc[t] \in {"join", "cleanup"}
                  => (shutdown_event # None /\ IsSet(shutdown_event))
            /\ rpc[t] = "cleanup" => browser_thread[t] # "alive"
            /\ rpc[t] = "shutdown" => rpc'[t] \in {"shutdown", "join", "raised"}
            /\ rpc[t] = "join" => rpc'[t] \in {"join", "cleanup"}
            /\ rpc[t] = "cleanup" => rpc'[t] \in {"cleanup", "returned"}
       /\ shutdown_event = None
            => \A t \in Threads : browser_thread[t] # "alive"
       /\ (shutdown_event # None /\ shutdown_event' = None)
            => /\ IsSet(shutdown_event)
               /\ \E t \in Threads :
                    /\ rpc[t] = "cleanup"
                    /\ rpc'[t] = "returned"
                    /\ browser_thread[t] # "alive"]_vars

\* A run with a browser helper has gone through its teardown: the helper
\* has ended, the signal is set, the manager is idle again.
C15_Witness ==
    \E t \in Threads :
        /\ rpc[t] = "returned"
        /\ browser_thread[t] = "done"
        /\ browser_event[t] # None
        /\ IsSet(browser_event[t])
        /\ shutdown_event = None

\* Ways gen ends on a failure of the renderer.
RenderFailed == {"raised_403", "raised_render"}

\* C16: a failure of the renderer ends the stream for good: the failing
\* step yields nothing, the last event stays the updating event of that
\* change, and afterwards the stream neither polls nor yields; the loop
\* condition is reached again only from the baseline, from continue on an
\* unchanged marker, or from a yielded content event.
C16_RenderFailureTerminal ==
    [][\A s \in Sessions :
          /\ pc[s] \in RenderFailed
                => /\ pc'[s] = pc[s]
                   /\ trace'[s] = trace[s]
                   /\ last_updated'[s] = last_updated[s]
                   /\ trace[s] # <<>>
                   /\ IsUpdating(trace[s][Len(trace[s])])
          /\ (pc[s] = "read" /\ pc'[s] \in RenderFailed)
                => trace'[s] = trace[s]
          /\ (pc[s] # "loop" /\ pc'[s] = "loop")
                => \/ pc[s] \in {"gen", "continue"}
                   \/ /\ pc[s] = "read"
                      /\ trace'[s] = Append(trace[s], Content(Render(text)))]_vars

\* The renderer has refused the second change of a stream with 403.
C16_Witness ==
    \E s \in Sessions : pc[s] = "raised_403" /\ Len(trace[s]) = 3

\* C17: the events of every stream, open or ended in whatever way,
\* alternate: an updating event first, a content event only right after an
\* updating event, never two content events or two updating events in a row.
C17_UpdatingBeforeContent ==
    \A s \in Sessions : Paired(trace[s])

\* A stream that has reported a change in full was closed by its client on
\* the updating event of the next.
C17_Witness ==
    \E s \in Sessions : pc[s] = "end_closed" /\ Len(trace[s]) = 3

\* The last event of the stream is the rendering of the document as it is.
ShowsDocument(s) ==
    /\ trace[s] # <<>>
    /\ trace[s][Len(trace[s])] = Content(Render(text))

\* C18: no rewrite is lost between the marker query and the read: a stream
\* waiting for its next poll with a baseline equal to the document's marker
\* has, after a rewrite, the rendering of the present document as its
\* last event; and under fair scheduling a stream whose document was
\* rewritten reaches such an event or ends.
C18_NoLostUpdate ==
    /\ [](\A s \in Sessions :
            (/\ pc[s] \in {"loop", "sleep", "continue"}
             /\ nmut[s] >= 1
             /\ docExists
             /\ last_updated[s] = mtime) => ShowsDocument(s))
    /\ \A s \in Sessions :
            (pc[s] \in Polling /\ nmut[s] >= 1)
                ~> (pc[s] \in Ended \/ ShowsDocument(s))

\* The document was rewritten between the poll and the read of a stream,
\* and the stream has since reported the rewrite a second poll found.
C18_Witness ==
    \E s \in Sessions :
        /\ pc[s] = "loop"
        /\ nmut[s] = 2
        /\ Len(trace[s]) = 4
        /\ trace[s][2] = trace[s][4]
        /\ ShowsDocument(s)

====
